---------------------------- MODULE Spec2Model ----------------------------
(***************************************************************************)
(* NFT airdrop ledger (NFTAirdropDatabase), its cache-aside manager        *)
(* (NFTAirdropManager) and the SEND_NFT action handler of the Starknet     *)
(* plugin, as state machines.                                              *)
(*                                                                         *)
(*   Spec        concurrent SEND_NFT handler invocations over one ledger   *)
(*               and one chain account                                     *)
(*   SpecMgr     one long-lived NFTAirdropManager driven through its       *)
(*               public methods, with other writers on the same ledger     *)
(*   SpecLedger  concurrent callers of NFTAirdropDatabase.recordAirdrop    *)
(*   SpecDb      the methods of NFTAirdropDatabase, one call after another *)
(*   SpecVal     isNFTTransferContent and getTransferError on one content  *)
(*   SpecFetch   one call of fetchWithRetry                                *)
(*   SpecHist    getAirdropHistory calls on one NFTAirdropManager          *)
(***************************************************************************)
EXTENDS Integers, Sequences, FiniteSets, TLC

(***************************************************************************)
(* Bounds of the model.                                                    *)
(***************************************************************************)
\* handler invocations (concurrent or one after the other)
NumInv == 2
\* clock advances
MaxTicks == 1
\* injected storage / network failures
MaxFaults == 2
\* callers of the ledger in SpecLedger
NumCallers == 3
\* method calls on the manager in SpecMgr
MaxCalls == 3
\* method calls on the database in SpecDb
MaxDbCalls == 4
\* the greatest maxRetries given to fetchWithRetry in SpecFetch
MaxMaxRetries == 2

(***************************************************************************)
(* Program constants.                                                      *)
(***************************************************************************)
\* new NodeCache({ stdTTL: 300 })
stdTTL == 300
\* content.x.length === 66
AddrLen == 66

(***************************************************************************)
(* JavaScript values.  A string value carries the name of its text; Chars   *)
(* gives the characters of each named text.                                *)
(***************************************************************************)
Str(s) == [t |-> "string", s |-> s]
Num(n) == [t |-> "number", n |-> n]
JsNull == [t |-> "null"]
JsUndefined == [t |-> "undefined"]
Obj(c, r) == [t |-> "object", nftContractAddress |-> c, recipient |-> r]

\* a 0x-prefixed address of AddrLen characters, all digits equal to d
Addr(d) == <<"0", "x">> \o [i \in 1..(AddrLen - 2) |-> d]

R1 == "0x11..11"
R2 == "0x22..22"
C1 == "0xaa..aa"
C2 == "0xbb..bb"
\* right prefix, one character short
ShortAddr == "0x11..1"
\* right length, wrong prefix
NoPrefixAddr == "1111..11"

\* the characters of a text
Chars(s) ==
    CASE s = R1 -> Addr("1")
      [] s = R2 -> Addr("2")
      [] s = C1 -> Addr("a")
      [] s = C2 -> Addr("b")
      [] s = ShortAddr -> <<"0", "x">> \o [i \in 1..(AddrLen - 3) |-> "1"]
      [] s = NoPrefixAddr -> [i \in 1..AddrLen |-> "1"]
      [] s = "" -> <<>>

Recipients == {R1, R2}
Contracts == {C1, C2}

\* JavaScript truthiness of a value
Truthy(v) ==
    CASE v.t = "string" -> Len(Chars(v.s)) > 0
      [] v.t = "number" -> v.n # 0
      [] v.t = "object" -> TRUE
      [] OTHER -> FALSE

\* String.prototype.startsWith("0x")
StartsWith0x(s) ==
    Len(Chars(s)) >= 2 /\ Chars(s)[1] = "0" /\ Chars(s)[2] = "x"

\* String.prototype.length
Length(s) == Len(Chars(s))

(***************************************************************************)
(* Request validation (utils).                                             *)
(***************************************************************************)
\* reading a property of null or undefined raises a TypeError
isNFTTransferContentThrows(content) == content.t \in {"null", "undefined"}

isNFTTransferContent(content) ==
    LET validTypes == /\ content.nftContractAddress.t = "string"
                      /\ content.recipient.t = "string"
    IN  IF ~validTypes
        THEN FALSE
        ELSE /\ StartsWith0x(content.nftContractAddress.s)
             /\ Length(content.nftContractAddress.s) = AddrLen
             /\ StartsWith0x(content.recipient.s)
             /\ Length(content.recipient.s) = AddrLen

\* a truthy non-string field has no startsWith method: TypeError
getTransferErrorThrows(content) ==
    /\ Truthy(content)
    /\ Truthy(content.nftContractAddress)
    /\ Truthy(content.recipient)
    /\ \/ content.nftContractAddress.t # "string"
       \/ /\ StartsWith0x(content.nftContractAddress.s)
          /\ Length(content.nftContractAddress.s) = AddrLen
          /\ content.recipient.t # "string"

getTransferError(content) ==
    IF ~Truthy(content) THEN "Error: Missing transfer details"
    ELSE IF ~Truthy(content.nftContractAddress)
    THEN "Error: Contract address required"
    ELSE IF ~Truthy(content.recipient)
    THEN "Error: Recipient address required"
    ELSE IF \/ ~StartsWith0x(content.nftContractAddress.s)
            \/ Length(content.nftContractAddress.s) # AddrLen
    THEN "Error: Invalid contract address"
    ELSE IF \/ ~StartsWith0x(content.recipient.s)
            \/ Length(content.recipient.s) # AddrLen
    THEN "Error: Invalid recipient address"
    ELSE ""

\* an address as the validator wants it: a string with prefix 0x and 66
\* characters
WellFormed(v) ==
    v.t = "string" /\ StartsWith0x(v.s) /\ Length(v.s) = AddrLen

\* the first item of the checklist (missing object, missing contract
\* address, missing recipient, malformed contract address, malformed
\* recipient) that fails for a content value
FirstFailingReason(content) ==
    IF content.t # "object" THEN "Error: Missing transfer details"
    ELSE IF ~Truthy(content.nftContractAddress)
    THEN "Error: Contract address required"
    ELSE IF ~Truthy(content.recipient)
    THEN "Error: Recipient address required"
    ELSE IF ~WellFormed(content.nftContractAddress)
    THEN "Error: Invalid contract address"
    ELSE IF ~WellFormed(content.recipient)
    THEN "Error: Invalid recipient address"
    ELSE ""

(***************************************************************************)
(* The ledger: table nft_airdrops of NFTAirdropDatabase.  A ledger is the  *)
(* set of its rows.                                                        *)
(***************************************************************************)
\* JavaScript undefined and SQL NULL in a transactionHash position
NoHash == "<undefined>"
SqlNull == "<NULL>"


\* BigInt.prototype.toString(): the decimal digits of n
Digit(n) == <<"0", "1", "2", "3", "4", "5", "6", "7", "8", "9">>[n + 1]

RECURSIVE BigIntToString(_)
BigIntToString(n) ==
    IF n < 10 THEN <<Digit(n)>>
    ELSE BigIntToString(n \div 10) \o <<Digit(n % 10)>>

\* a table whose only constraint is the PRIMARY KEY on id
UniqueViolationIdOnly(L, row) == \E x \in L : x.id = row.id

\* UNIQUE(recipient_address, nft_contract_address, token_id)
UniqueViolation(L, row) ==
    \E x \in L : /\ x.recipient_address = row.recipient_address
                 /\ x.nft_contract_address = row.nft_contract_address
                 /\ x.token_id = row.token_id

\* the INSERT statement with a missing UNIQUE constraint
DbRecordAirdropNoConstraint(L, params, id, ts, fault) ==
    LET row == [id |-> id,
                recipient_address |-> params.recipientAddress,
                nft_contract_address |-> params.nftContractAddress,
                token_id |-> params.tokenId,
                transaction_hash |->
                    IF params.transactionHash \in {"", NoHash}
                    THEN SqlNull ELSE params.transactionHash,
                airdrop_timestamp |-> ts,
                room_id |-> params.roomId,
                agent_id |-> params.agentId]
    IN  IF fault
        THEN [ok |-> FALSE, ledger |-> L]
        ELSE [ok |-> TRUE, ledger |-> L \cup {row}]

\* an INSERT OR REPLACE: the later record of a triple overwrites the first
DbRecordAirdropReplacing(L, params, id, ts, fault) ==
    LET row == [id |-> id,
                recipient_address |-> params.recipientAddress,
                nft_contract_address |-> params.nftContractAddress,
                token_id |-> params.tokenId,
                transaction_hash |->
                    IF params.transactionHash \in {"", NoHash}
                    THEN SqlNull ELSE params.transactionHash,
                airdrop_timestamp |-> ts,
                room_id |-> params.roomId,
                agent_id |-> params.agentId]
    IN  IF fault
        THEN [ok |-> FALSE, ledger |-> L]
        ELSE [ok |-> TRUE,
              ledger |-> {x \in L : ~UniqueViolation({x}, row)} \cup {row}]

\* recordAirdrop(params): one constrained INSERT; id is the fresh uuid, ts is
\* Date.now(), fault says that the statement raises a storage error
DbRecordAirdrop(L, params, id, ts, fault) ==
    LET row == [id |-> id,
                recipient_address |-> params.recipientAddress,
                nft_contract_address |-> params.nftContractAddress,
                token_id |-> params.tokenId,
                transaction_hash |->
                    IF params.transactionHash \in {"", NoHash}
                    THEN SqlNull ELSE params.transactionHash,
                airdrop_timestamp |-> ts,
                room_id |-> params.roomId,
                agent_id |-> params.agentId]
    IN  IF fault \/ UniqueViolation(L, row)
        THEN [ok |-> FALSE, ledger |-> L]
        ELSE [ok |-> TRUE, ledger |-> L \cup {row}]

\* a hasReceivedAirdrop whose comparison is off by one
DbHasReceivedAirdropOffByOne(L, recipientAddress, fault) ==
    IF fault THEN FALSE
    ELSE Cardinality({x \in L : x.recipient_address = recipientAddress}) > 1

\* a hasReceivedAirdrop that answers "served" when the query fails
DbHasReceivedAirdropFailClosed(L, recipientAddress, fault) ==
    IF fault THEN TRUE
    ELSE Cardinality({x \in L : x.recipient_address = recipientAddress}) > 0

\* hasReceivedAirdrop(recipientAddress): COUNT(*) > 0, false on any error
DbHasReceivedAirdrop(L, recipientAddress, fault) ==
    IF fault THEN FALSE
    ELSE Cardinality({x \in L : x.recipient_address = recipientAddress}) > 0

\* a row as getAirdropHistory returns it
RowToAirdrop(row) ==
    [id |-> row.id,
     recipientAddress |-> row.recipient_address,
     nftContractAddress |-> row.nft_contract_address,
     tokenId |-> row.token_id,
     transactionHash |->
         IF row.transaction_hash \in {SqlNull, ""}
         THEN NoHash ELSE row.transaction_hash,
     airdropTimestamp |-> row.airdrop_timestamp,
     roomId |-> row.room_id,
     agentId |-> row.agent_id]

\* the orders an ORDER BY airdrop_timestamp ASC would allow
OldestFirst(S) ==
    {s \in [1..Cardinality(S) -> S] :
        /\ \A i, j \in 1..Cardinality(S) : i # j => s[i] # s[j]
        /\ \A i, j \in 1..Cardinality(S) :
              i < j => s[i].airdrop_timestamp <= s[j].airdrop_timestamp}

\* the orders ORDER BY airdrop_timestamp DESC allows for the rows S
NewestFirst(S) ==
    {s \in [1..Cardinality(S) -> S] :
        /\ \A i, j \in 1..Cardinality(S) : i # j => s[i] # s[j]
        /\ \A i, j \in 1..Cardinality(S) :
              i < j => s[i].airdrop_timestamp >= s[j].airdrop_timestamp}

Min(a, b) == IF a < b THEN a ELSE b

\* getAirdropHistory(params): the results the query may return.  An absent
\* (or empty) filter is "", an absent (or zero) limit is 0.
DbGetAirdropHistory(L, params, fault) ==
    IF fault THEN {<<>>}
    ELSE
      LET S == {x \in L :
                  /\ params.roomId # "" => x.room_id = params.roomId
                  /\ params.agentId # "" => x.agent_id = params.agentId
                  /\ params.recipientAddress # "" =>
                         x.recipient_address = params.recipientAddress}
          n == IF params.limit # 0 THEN Min(params.limit, Cardinality(S))
               ELSE Cardinality(S)
      IN  {[i \in 1..n |-> RowToAirdrop(s[i])] : s \in NewestFirst(S)}

\* the rows getAirdropStats counts: those matching every filter given ("" and
\* 0: not given)
StatsRows(L, params) ==
    {x \in L :
        /\ params.roomId # "" => x.room_id = params.roomId
        /\ params.agentId # "" => x.agent_id = params.agentId
        /\ params.startTime # 0 => x.airdrop_timestamp >= params.startTime
        /\ params.endTime # 0 => x.airdrop_timestamp <= params.endTime}

\* statistics with COUNT(recipient_address), the DISTINCT forgotten
DbGetAirdropStatsNoDistinct(L, params, fault) ==
    IF fault THEN [totalAirdrops |-> 0, uniqueRecipients |-> 0]
    ELSE [totalAirdrops |-> Cardinality(StatsRows(L, params)),
          uniqueRecipients |-> Cardinality(StatsRows(L, params))]

\* getAirdropStats(params): COUNT(*) and COUNT(DISTINCT recipient_address) of
\* the rows; zeros on any error
DbGetAirdropStats(L, params, fault) ==
    IF fault THEN [totalAirdrops |-> 0, uniqueRecipients |-> 0]
    ELSE [totalAirdrops |-> Cardinality(StatsRows(L, params)),
          uniqueRecipients |->
              Cardinality({x.recipient_address : x \in StatsRows(L, params)})]

(***************************************************************************)
(* NFTAirdropManager: the ledger behind a NodeCache.  A cache is a record  *)
(* of two sets of entries [k, v, t]: the "airdrop-status:<address>" keys   *)
(* and the "airdrop-history:<address>" keys; t is the time after which the *)
(* entry is expired.                                                       *)
(***************************************************************************)
EmptyCache == [status |-> {}, history |-> {}]

\* a cache whose entries never expire
LiveForever(entries, now) == entries

\* NodeCache.get: an entry whose time t has passed is dropped and reads as
\* undefined
Live(entries, now) == {e \in entries : ~(e.t < now)}

CacheHas(entries, k, now) == \E e \in Live(entries, now) : e.k = k

CacheValue(entries, k, now) ==
    (CHOOSE e \in Live(entries, now) : e.k = k).v

\* NodeCache.set with the standard TTL
CacheSet(entries, k, v, now) ==
    {e \in entries : e.k # k} \cup {[k |-> k, v |-> v, t |-> now + stdTTL]}

\* a hasReceivedAirdrop that caches positive answers only
MgrHasReceivedAirdropNoNegative(cache, L, address, now, fault) ==
    IF CacheHas(cache.status, address, now)
    THEN [value |-> CacheValue(cache.status, address, now),
          cache |-> [cache EXCEPT !.status = Live(@, now)],
          hit |-> TRUE]
    ELSE LET hasReceived == DbHasReceivedAirdrop(L, address, fault)
         IN  [value |-> hasReceived,
              cache |-> [cache EXCEPT !.status =
                            IF hasReceived
                            THEN CacheSet(Live(@, now), address, TRUE, now)
                            ELSE Live(@, now)],
              hit |-> FALSE]

\* hasReceivedAirdrop(address): the cached answer, or the ledger's, which is
\* then cached
MgrHasReceivedAirdrop(cache, L, address, now, fault) ==
    IF CacheHas(cache.status, address, now)
    THEN [value |-> CacheValue(cache.status, address, now),
          cache |-> [cache EXCEPT !.status = Live(@, now)],
          hit |-> TRUE]
    ELSE LET hasReceived == DbHasReceivedAirdrop(L, address, fault)
         IN  [value |-> hasReceived,
              cache |-> [cache EXCEPT !.status =
                            CacheSet(Live(@, now), address, hasReceived, now)],
              hit |-> FALSE]

\* a recordAirdrop that marks the recipient as served in the cache when the
\* insert succeeds
MgrRecordAirdropCaching(cache, L, params, id, ts, fault) ==
    LET r == DbRecordAirdrop(L, params, id, ts, fault)
    IN  [ok |-> r.ok, ledger |-> r.ledger,
         cache |-> IF r.ok
                   THEN [cache EXCEPT !.status =
                           CacheSet(@, params.recipientAddress, TRUE, ts)]
                   ELSE cache]

\* recordAirdrop(params): the ledger's insert; the cache is not touched
MgrRecordAirdrop(cache, L, params, id, ts, fault) ==
    LET r == DbRecordAirdrop(L, params, id, ts, fault)
    IN  [ok |-> r.ok, ledger |-> r.ledger, cache |-> cache]

\* getAirdropHistory({recipientAddress, limit}): the outcomes the call may
\* have; a cached array, even an empty one, is a hit
MgrGetAirdropHistory(cache, L, recipientAddress, limit, now, fault) ==
    IF CacheHas(cache.history, recipientAddress, now)
    THEN {[value |-> CacheValue(cache.history, recipientAddress, now),
           cache |-> [cache EXCEPT !.history = Live(@, now)],
           hit |-> TRUE]}
    ELSE {[value |-> history,
           cache |-> [cache EXCEPT !.history =
                        CacheSet(Live(@, now), recipientAddress, history, now)],
           hit |-> FALSE] :
          history \in DbGetAirdropHistory(L,
                        [roomId |-> "", agentId |-> "",
                         recipientAddress |-> recipientAddress,
                         limit |-> limit], fault)}

\* new Date(airdropTimestamp).toLocaleString()
ToLocaleString(ts) == [localeString |-> ts]

\* template interpolation of a transaction hash
Interpolate(hash) == IF hash = NoHash THEN "undefined" ELSE hash

NoText == [t |-> "none"]

\* formatAirdropStatus, from the answer of its hasReceivedAirdrop call on:
\* the texts it may return with the cache each leaves
FormatAirdropStatusRest(hasReceived, cache, L, address, now, fault) ==
    IF hasReceived
    THEN {[cache |-> h.cache,
           text |-> IF Len(h.value) > 0
                    THEN [t |-> "has already received an NFT (tokenId) on date",
                          address |-> address,
                          tokenId |-> h.value[1].tokenId,
                          date |-> ToLocaleString(h.value[1].airdropTimestamp),
                          transactionHash |->
                              Interpolate(h.value[1].transactionHash)]
                    ELSE [t |-> "has already received an NFT",
                          address |-> address]] :
          h \in MgrGetAirdropHistory(cache, L, address, 1, now, fault)}
    ELSE {[cache |-> cache,
           text |-> [t |-> "has not received an NFT airdrop yet",
                     address |-> address]]}

(***************************************************************************)
(* The chain, as seen through ERC721Token and account.execute: the token   *)
(* ids the distributing account holds in each contract, in the order of    *)
(* the contract's enumeration.                                             *)
(***************************************************************************)
InitialHoldings == (C1 :> <<7, 12>>) @@ (C2 :> <<0>>)

\* a selection that takes the token the account received last
TokenOfOwnerByLastIndex(hold, index) ==
    IF Len(hold) > 0 THEN hold[Len(hold)] ELSE 0

\* tokenOfOwnerByIndex(owner, index): the zero identifier when the account
\* holds no token at that index
TokenOfOwnerByIndex(hold, index) ==
    IF index < Len(hold) THEN hold[index + 1] ELSE 0

Holds(hold, tokenId) == \E k \in 1..Len(hold) : hold[k] = tokenId

\* the enumeration after a token left the account: the last token takes the
\* place of the one removed
RemoveToken(hold, tokenId) ==
    LET k == CHOOSE k \in 1..Len(hold) : hold[k] = tokenId
        n == Len(hold)
    IN  [j \in 1..(n - 1) |-> IF j = k THEN hold[n] ELSE hold[j]]

\* tx.transaction_hash of the n-th transaction the account submitted
TxHash(n) == <<"0xTX1", "0xTX2", "0xTX3", "0xTX4", "0xTX5">>[n]

(***************************************************************************)
(* State.                                                                  *)
(***************************************************************************)
VARIABLES
    ledger,     \* rows of nft_airdrops
    nextId,     \* the next uuid (that of a refused insert is never seen)
    now,        \* Date.now(), in seconds
    ticks,      \* clock advances so far
    faults,     \* failures injected so far
    holdings,   \* contract -> token ids of the distributing account
    nonce,      \* transactions submitted so far
    h,          \* SEND_NFT handler invocations; the validator call of SpecVal;
                \* the fetchWithRetry call of SpecFetch
    mgr,        \* the long-lived manager of SpecMgr
    callers     \* the recordAirdrop callers of SpecLedger; the last call of SpecDb

vars == <<ledger, nextId, now, ticks, faults, holdings, nonce, h, mgr, callers>>

Inv == 1..NumInv

NoError == "<absent>"
NoCallback == [text |-> NoText, error |-> NoError]

\* an invocation that has not started
IdleInvocation ==
    [pc |-> "idle", content |-> JsUndefined, roomId |-> "", agentId |-> "",
     cache |-> EmptyCache, hasReceived |-> FALSE, fmtHasReceived |-> FALSE,
     nftId |-> 0, tx |-> "", cb |-> NoCallback, ret |-> "none",
     \* history of the invocation, for stating properties
     servedAtCheck |-> FALSE, afterRecorder |-> FALSE,
     afterFailed |-> FALSE, readFault |-> FALSE, recordFault |-> FALSE,
     selectCalls |-> 0, executeCalls |-> 0, executeThrew |-> FALSE,
     recordRet |-> "none", recordParams |-> <<>>]

\* the contents generateObject may hand to the handler
HandlerContents ==
    {Obj(Str(C1), Str(R1)), Obj(Str(C2), Str(R1)), Obj(Str(C1), Str(R2)),
     JsNull, Obj(JsUndefined, JsUndefined), Obj(Str(C1), Num(5))}

\* a call of a method, as remembered for stating properties
NoCall == [op |-> "none"]

\* a manager just constructed, no method called yet
NewMgr == [cache |-> EmptyCache, calls |-> 0, last |-> NoCall, prev |-> NoCall]

\* an empty table, the account's tokens untouched
InitCommon ==
    /\ ledger = {}
    /\ nextId = 1
    /\ now = 0
    /\ ticks = 0
    /\ faults = 0
    /\ holdings = InitialHoldings
    /\ nonce = 0

Init ==
    /\ InitCommon
    /\ h = [i \in Inv |-> IdleInvocation]
    /\ mgr = NewMgr
    /\ callers = <<>>

\* a step may fail only while the failure budget lasts
MayFail(fault) == fault => faults < MaxFaults

Spend(fault) == faults' = IF fault THEN faults + 1 ELSE faults

\* a catch that logs the failure and falls through to recordAirdrop
CaughtAndContinue(inv, message) == [inv EXCEPT !.pc = "executed"]

\* a catch block that swallows the failure and reports nothing
CaughtSilently(inv, message) ==
    [inv EXCEPT !.pc = "done", !.ret = "true", !.cache = EmptyCache]

\* the handler's catch block: report the message, return false
Caught(inv, message) ==
    [inv EXCEPT !.pc = "done", !.ret = "false", !.cache = EmptyCache,
                !.cb = [text |-> [t |-> "Error transferring NFT: ",
                                  message |-> message],
                        error |-> message]]

\* an eligibility check that looks only at the records of the contract the
\* request names
CheckEligibilityPerContract(L, content, t, fault) ==
    MgrHasReceivedAirdrop(EmptyCache,
        {x \in L : x.nft_contract_address = content.nftContractAddress.s},
        content.recipient.s, t, fault)

\* an eligibility check on a manager whose cache is shared by the
\* invocations
CheckEligibilitySharedCache(L, content, t, fault) ==
    MgrHasReceivedAirdrop(
        [status |-> UNION {h[j].cache.status : j \in DOMAIN h},
         history |-> {}],
        L, content.recipient.s, t, fault)

\* the handler's eligibility check: a new NFTAirdropManager is asked
\* hasReceivedAirdrop(content.recipient)
CheckEligibility(L, content, t, fault) ==
    MgrHasReceivedAirdrop(EmptyCache, L, content.recipient.s, t, fault)

(***************************************************************************)
(* The SEND_NFT handler, one action per stretch between two awaits.        *)
(***************************************************************************)
\* from the extracted content to the await of hasReceivedAirdrop
Start(i) ==
    /\ h[i].pc = "idle"
    \* invocations are interchangeable: they are numbered in the order they start
    /\ \A j \in Inv : j < i => h[j].pc # "idle"
    /\ \E content \in HandlerContents, fault \in BOOLEAN :
        /\ MayFail(fault)
        /\ LET started == [h[i] EXCEPT !.content = content]
           IN
           IF isNFTTransferContentThrows(content)
           THEN /\ ~fault
                /\ h' = [h EXCEPT ![i] =
                           [started EXCEPT !.pc = "done", !.ret = "threw"]]
                /\ UNCHANGED faults
           ELSE IF ~isNFTTransferContent(content)
           THEN /\ ~fault
                /\ h' = [h EXCEPT ![i] =
                     IF getTransferErrorThrows(content)
                     THEN [started EXCEPT !.pc = "done", !.ret = "threw"]
                     ELSE [started EXCEPT
                             !.pc = "done", !.ret = "false",
                             !.cb = [text |-> [t |-> getTransferError(content)],
                                     error |-> getTransferError(content)]]]
                /\ UNCHANGED faults
           ELSE LET r == CheckEligibility(ledger, content, now, fault)
                IN  /\ h' = [h EXCEPT ![i] =
                          [started EXCEPT
                             !.pc = "checked", !.roomId = "room1",
                             !.agentId = "agent1",
                             !.cache = r.cache, !.hasReceived = r.value,
                             !.servedAtCheck =
                                 DbHasReceivedAirdrop(ledger,
                                     content.recipient.s, FALSE),
                             !.afterRecorder =
                                 \E j \in Inv :
                                    /\ h[j].pc = "done"
                                    /\ h[j].recordRet = "true"
                                    /\ h[j].content.recipient =
                                           content.recipient,
                             !.afterFailed =
                                 \E j \in Inv :
                                    /\ h[j].pc = "done"
                                    /\ h[j].executeThrew
                                    /\ h[j].content = content,
                             !.readFault = fault]]
                    /\ Spend(fault)
    /\ UNCHANGED <<ledger, nextId, now, ticks, holdings, nonce, mgr, callers>>

\* already served: formatAirdropStatus up to its await of hasReceivedAirdrop
RejectStatus(i) ==
    /\ h[i].pc = "checked"
    /\ h[i].hasReceived
    /\ \E fault \in BOOLEAN :
        /\ MayFail(fault)
        /\ LET r == MgrHasReceivedAirdrop(h[i].cache, ledger,
                        h[i].content.recipient.s, now, fault)
           IN  /\ r.hit => ~fault
               /\ h' = [h EXCEPT ![i].pc = "formatting",
                                 ![i].cache = r.cache,
                                 ![i].fmtHasReceived = r.value]
               /\ Spend(fault)
    /\ UNCHANGED <<ledger, nextId, now, ticks, holdings, nonce, mgr, callers>>

\* the rest of formatAirdropStatus, the callback and return false
RejectReport(i) ==
    /\ h[i].pc = "formatting"
    /\ \E fault \in BOOLEAN :
        /\ MayFail(fault)
        /\ fault => /\ h[i].fmtHasReceived
                    /\ ~CacheHas(h[i].cache.history,
                                 h[i].content.recipient.s, now)
        /\ \E o \in FormatAirdropStatusRest(h[i].fmtHasReceived, h[i].cache,
                        ledger, h[i].content.recipient.s, now, fault) :
               h' = [h EXCEPT ![i].pc = "done", ![i].ret = "false",
                              ![i].cache = EmptyCache,
                              ![i].cb = [text |-> o.text,
                                         error |->
                                           "Recipient already received NFT"]]
        /\ Spend(fault)
    /\ UNCHANGED <<ledger, nextId, now, ticks, holdings, nonce, mgr, callers>>

\* not served: tokenOfOwnerByIndex(account.address, 0n)
Select(i) ==
    /\ h[i].pc = "checked"
    /\ ~h[i].hasReceived
    /\ \E fault \in BOOLEAN :
        /\ MayFail(fault)
        /\ h' = [h EXCEPT ![i] =
             IF fault
             THEN Caught([h[i] EXCEPT !.selectCalls = @ + 1], "network error")
             ELSE [h[i] EXCEPT
                     !.pc = "selected", !.selectCalls = @ + 1,
                     !.nftId = TokenOfOwnerByIndex(
                         holdings[h[i].content.nftContractAddress.s], 0)]]
        /\ Spend(fault)
    /\ UNCHANGED <<ledger, nextId, now, ticks, holdings, nonce, mgr, callers>>

\* transferCall and account.execute: the transfer goes through when the
\* account holds the token and the submission does not fail
Execute(i) ==
    /\ h[i].pc = "selected"
    /\ \E fault \in BOOLEAN :
        /\ MayFail(fault)
        /\ LET c == h[i].content.nftContractAddress.s
               called == [h[i] EXCEPT !.executeCalls = @ + 1]
           IN  IF fault
               THEN /\ h' = [h EXCEPT ![i] =
                        Caught([called EXCEPT !.executeThrew = TRUE],
                               "network error")]
                    /\ UNCHANGED <<holdings, nonce>>
               ELSE IF ~Holds(holdings[c], h[i].nftId)
               THEN /\ h' = [h EXCEPT ![i] =
                        Caught([called EXCEPT !.executeThrew = TRUE],
                               "transaction reverted")]
                    /\ UNCHANGED <<holdings, nonce>>
               ELSE /\ holdings' = [holdings EXCEPT ![c] =
                                       RemoveToken(@, h[i].nftId)]
                    /\ nonce' = nonce + 1
                    /\ h' = [h EXCEPT ![i] =
                          [called EXCEPT !.pc = "executed",
                                         !.tx = TxHash(nonce + 1)]]
        /\ Spend(fault)
    /\ UNCHANGED <<ledger, nextId, now, ticks, mgr, callers>>

\* the parameters the handler passes to recordAirdrop
RecordParams(inv) ==
    [recipientAddress |-> inv.content.recipient.s,
     nftContractAddress |-> inv.content.nftContractAddress.s,
     tokenId |-> BigIntToString(inv.nftId),
     transactionHash |-> inv.tx,
     roomId |-> inv.roomId,
     agentId |-> inv.agentId]

\* await nftManager.recordAirdrop(...): the answer is not looked at.  The
\* insert reads the clock, which may have advanced since the last insert
\* (only the order of the stored timestamps is ever observed).
Record(i) ==
    /\ h[i].pc = "executed"
    /\ \E fault \in BOOLEAN, d \in {0, 1} :
        /\ MayFail(fault)
        /\ d = 1 => ~fault /\ ledger # {}
        /\ now' = now + d
        /\ LET r == MgrRecordAirdrop(h[i].cache, ledger, RecordParams(h[i]),
                                     nextId, now', fault)
           IN  /\ ledger' = r.ledger
               /\ nextId' = IF r.ok THEN nextId + 1 ELSE nextId
               /\ h' = [h EXCEPT ![i].pc = "recorded",
                                 ![i].cache = r.cache,
                                 ![i].recordParams = RecordParams(h[i]),
                                 ![i].recordFault = fault,
                                 ![i].recordRet =
                                     IF r.ok THEN "true" ELSE "false"]
        /\ Spend(fault)
    /\ UNCHANGED <<ticks, holdings, nonce, mgr, callers>>

\* the success callback and return true
Finish(i) ==
    /\ h[i].pc = "recorded"
    /\ h' = [h EXCEPT ![i].pc = "done", ![i].ret = "true",
                      ![i].cache = EmptyCache,
                      ![i].cb =
                         [text |-> [t |-> "NFT transfer completed successfully! tx: ",
                                    transactionHash |-> h[i].tx],
                          error |-> NoError]]
    /\ UNCHANGED <<ledger, nextId, now, ticks, faults, holdings, nonce, mgr,
                   callers>>

Next ==
    \/ \E i \in Inv : Start(i)
    \/ \E i \in Inv : RejectStatus(i)
    \/ \E i \in Inv : RejectReport(i)
    \/ \E i \in Inv : Select(i)
    \/ \E i \in Inv : Execute(i)
    \/ \E i \in Inv : Record(i)
    \/ \E i \in Inv : Finish(i)

Spec == Init /\ [][Next]_vars

(***************************************************************************)
(* Properties of the handler (specification Spec).                         *)
(***************************************************************************)
\* invocation i carries a request for recipient r
Targets(i, r) == h[i].content.t = "object" /\ h[i].content.recipient = Str(r)

RecordsOf(r) == {x \in ledger : x.recipient_address = r}

\* the row a successful recordAirdrop(params) leaves in the ledger
Recorded(params) ==
    \E x \in ledger :
        /\ x.recipient_address = params.recipientAddress
        /\ x.nft_contract_address = params.nftContractAddress
        /\ x.token_id = params.tokenId
        /\ x.transaction_hash = params.transactionHash
        /\ x.room_id = params.roomId
        /\ x.agent_id = params.agentId

\* formatAirdropStatus(address) on a manager with that cache, every read of
\* the ledger succeeding: the texts it may return
FormatAirdropStatus(cache, L, address, t) ==
    LET r == MgrHasReceivedAirdrop(cache, L, address, t, FALSE)
    IN  {o.text : o \in FormatAirdropStatusRest(r.value, r.cache, L, address,
                                                  t, FALSE)}

\* C2: when racing invocations (no failure injected) have all finished, the
\* ledger holds at most one record per recipient.
C2_OneRecordPerRecipient ==
    (faults = 0 /\ \A i \in Inv : h[i].pc \in {"idle", "done"})
        => \A r \in Recipients : Cardinality(RecordsOf(r)) <= 1

\* C3: each recipient is the target of at most one successful submission.
C3_OneSubmissionPerRecipient ==
    \A r \in Recipients :
        Cardinality({i \in Inv : Targets(i, r) /\ h[i].tx # ""}) <= 1

\* C4: an invocation whose eligibility check answered "not served" for a
\* recipient who had a record, and which went on to transfer, gets false from
\* recordAirdrop and writes no second record for the recipient.
C4_InsertIsBackstop ==
    \A i \in Inv :
        (h[i].servedAtCheck /\ ~h[i].hasReceived /\ h[i].recordRet # "none")
            => /\ h[i].recordRet = "false"
               /\ Cardinality(RecordsOf(h[i].content.recipient.s)) <= 1

\* C6: when execute succeeded and recordAirdrop returned false, the handler
\* does not report success and its callback carries an error.
C6_CommitFailureSurfaced ==
    \A i \in Inv :
        (h[i].pc = "done" /\ h[i].tx # "" /\ h[i].recordRet = "false")
            => h[i].ret # "true" /\ h[i].cb.error # NoError

\* the texts formatAirdropStatus returns for a served recipient
AlreadyReceivedTexts ==
    {"has already received an NFT (tokenId) on date",
     "has already received an NFT"}

StopsAtEligibilityCheck(i) ==
    /\ h[i].selectCalls = 0
    /\ h[i].executeCalls = 0
    /\ h[i].hasReceived
    /\ h[i].pc = "done" =>
          /\ h[i].ret = "false"
          /\ h[i].cb.error = "Recipient already received NFT"
          /\ h[i].cb.text.t \in AlreadyReceivedTexts
          /\ h[i].cb.text.address = h[i].content.recipient.s

\* C8 (as claimed): every invocation for r that starts after an invocation
\* that recorded r has finished stops at the eligibility check.
C8_LaterInvocationRejected ==
    \A i \in Inv : h[i].afterRecorder => StopsAtEligibilityCheck(i)

\* C8 (amended): it does when the ledger read of its eligibility check
\* succeeds.
C8_LaterInvocationRejectedWhenReadSucceeds ==
    \A i \in Inv :
        (h[i].afterRecorder /\ ~h[i].readFault) => StopsAtEligibilityCheck(i)

\* a later invocation was rejected with the status text of the record
C8_Witness ==
    \E i \in Inv :
        /\ h[i].afterRecorder /\ ~h[i].readFault
        /\ h[i].pc = "done" /\ h[i].ret = "false"
        /\ h[i].cb.error = "Recipient already received NFT"
        /\ h[i].cb.text.t = "has already received an NFT (tokenId) on date"
        /\ \E x \in RecordsOf(h[i].content.recipient.s) :
              /\ h[i].cb.text.tokenId = x.token_id
              /\ h[i].cb.text.transactionHash = x.transaction_hash

\* C9: an invocation for a recipient without a prior record that reports
\* success has committed the record (recipient, contract, token id as a
\* string, hash, roomId, agentId), and formatAirdropStatus then reports the
\* recipient as served with that hash.
C9_RecordCommittedBeforeSuccess ==
    \A i \in Inv :
        (h[i].ret = "true" /\ ~h[i].servedAtCheck)
            => /\ Recorded(RecordParams(h[i]))
               /\ \E text \in FormatAirdropStatus(EmptyCache, ledger,
                                  h[i].content.recipient.s, now) :
                     /\ text.t = "has already received an NFT (tokenId) on date"
                     /\ text.transactionHash = h[i].tx

\* the content of invocation i does not pass isNFTTransferContent
FailsValidation(i) ==
    /\ h[i].pc # "idle"
    /\ ~(/\ h[i].content.t = "object"
         /\ WellFormed(h[i].content.nftContractAddress)
         /\ WellFormed(h[i].content.recipient))

\* C14: an invocation whose content fails validation returns false and
\* hands the callback the validator's reason as text and as content.error,
\* having read and written nothing: no cache entry, no selection, no
\* submission, no ledger insert.
C14_InvalidRequestRejected ==
    \A i \in Inv :
        FailsValidation(i)
            => /\ h[i].pc = "done"
               /\ h[i].ret = "false"
               /\ h[i].cb.text = [t |-> FirstFailingReason(h[i].content)]
               /\ h[i].cb.error = FirstFailingReason(h[i].content)
               /\ h[i].cache = EmptyCache
               /\ h[i].selectCalls = 0 /\ h[i].executeCalls = 0
               /\ h[i].recordRet = "none"

(***************************************************************************)
(* SpecLedger: callers of NFTAirdropDatabase.recordAirdrop on one          *)
(* database.  better-sqlite3 is synchronous: each call runs to its end.    *)
(***************************************************************************)
Callers == 1..NumCallers

Params(r, c, tokenId, hash, room) ==
    [recipientAddress |-> r, nftContractAddress |-> c,
     tokenId |-> BigIntToString(tokenId), transactionHash |-> hash,
     roomId |-> room, agentId |-> "agent1"]

\* the parameters the callers pass: one triple three times, and two others
LedgerParams ==
    {Params(R1, C1, 7, "0xTX1", "room1"), Params(R1, C1, 7, NoHash, "room2"),
     Params(R1, C1, 7, "0xTX3", "room2"),
     Params(R1, C1, 12, "0xTX2", "room1"), Params(R2, C1, 7, "0xTX4", "room2")}

IdleCaller == [pc |-> "idle", params |-> <<>>, ret |-> FALSE, fault |-> FALSE]

InitLedger ==
    /\ InitCommon
    /\ h = <<>>
    /\ mgr = NewMgr
    /\ callers = [c \in Callers |-> IdleCaller]

\* db.recordAirdrop(params)
CallRecordAirdrop(c) ==
    /\ callers[c].pc = "idle"
    \* callers are interchangeable: they are numbered in the order they call
    /\ \A b \in Callers : b < c => callers[b].pc # "idle"
    /\ \E params \in LedgerParams, fault \in BOOLEAN, d \in {0, 1} :
        /\ MayFail(fault)
        /\ d = 1 => ~fault /\ ledger # {}
        /\ now' = now + d
        /\ LET r == DbRecordAirdrop(ledger, params, nextId, now', fault)
           IN  /\ ledger' = r.ledger
               /\ nextId' = IF r.ok THEN nextId + 1 ELSE nextId
               /\ callers' = [callers EXCEPT ![c] =
                                [pc |-> "done", params |-> params,
                                 ret |-> r.ok, fault |-> fault]]
        /\ Spend(fault)
    /\ UNCHANGED <<ticks, holdings, nonce, h, mgr>>

NextLedger == \E c \in Callers : CallRecordAirdrop(c)

SpecLedger == InitLedger /\ [][NextLedger]_vars

\* the (recipient, contract, token id) triple of recordAirdrop parameters
Triple(params) ==
    <<params.recipientAddress, params.nftContractAddress, params.tokenId>>

Triples == {Triple(params) : params \in LedgerParams}

\* the calls made so far with triple T, those that returned true, and the
\* rows of the ledger with that triple
CallsWith(T) ==
    {c \in Callers : callers[c].pc = "done" /\ Triple(callers[c].params) = T}

WinnersWith(T) == {c \in CallsWith(T) : callers[c].ret}

RowsWith(T) ==
    {x \in ledger :
        <<x.recipient_address, x.nft_contract_address, x.token_id>> = T}

\* C1 (as claimed): once every call has returned, of the calls made with one
\* triple exactly one returned true, and one row with the triple exists.
C1_ExactlyOneInsertWins ==
    (\A c \in Callers : callers[c].pc = "done")
        => \A T \in Triples :
              CallsWith(T) # {}
                 => /\ Cardinality(WinnersWith(T)) = 1
                    /\ Cardinality(RowsWith(T)) = 1

\* C1 (amended): of the calls made with one triple at most one returned true,
\* the ledger holds one row with the triple per such call, and exactly one
\* call returned true when one of them met no storage error.
C1_OneInsertWinsUnlessAllFail ==
    \A T \in Triples :
        /\ Cardinality(WinnersWith(T)) <= 1
        /\ Cardinality(RowsWith(T)) = Cardinality(WinnersWith(T))
        /\ (\E c \in CallsWith(T) : ~callers[c].fault)
              => Cardinality(WinnersWith(T)) = 1

\* three calls with one triple, none failing in storage: one true, two false
C1_Witness ==
    \E T \in Triples :
        /\ CallsWith(T) = Callers
        /\ \A c \in Callers : ~callers[c].fault
        /\ Cardinality(WinnersWith(T)) = 1
        /\ Cardinality(RowsWith(T)) = 1

(***************************************************************************)
(* SpecMgr: one NFTAirdropManager called through its methods, while time   *)
(* passes and other managers on the same database record airdrops.         *)
(***************************************************************************)
MgrParams ==
    {Params(R1, C1, 7, "0xTX1", "room1"), Params(R2, C1, 7, "", "room1")}

InitMgr ==
    /\ InitCommon
    /\ h = <<>>
    /\ mgr = NewMgr
    /\ callers = <<>>

\* the manager after a call: the call is the last one, the one before it is
\* kept too
AfterCall(cache, call) ==
    [cache |-> cache, calls |-> mgr.calls + 1, last |-> call,
     prev |-> mgr.last]

\* manager.hasReceivedAirdrop(address)
MgrCallHasReceivedAirdrop ==
    /\ mgr.calls < MaxCalls
    /\ \E address \in Recipients, fault \in BOOLEAN :
        /\ MayFail(fault)
        /\ LET r == MgrHasReceivedAirdrop(mgr.cache, ledger, address, now,
                                          fault)
           IN  /\ r.hit => ~fault
               /\ mgr' = AfterCall(r.cache,
                            [op |-> "hasReceivedAirdrop", address |-> address,
                             value |-> r.value, hit |-> r.hit,
                             fault |-> fault, at |-> now])
        /\ Spend(fault)
    /\ UNCHANGED <<ledger, nextId, now, ticks, holdings, nonce, h, callers>>

\* manager.recordAirdrop(params)
MgrCallRecordAirdrop ==
    /\ mgr.calls < MaxCalls
    /\ \E params \in MgrParams, fault \in BOOLEAN :
        /\ MayFail(fault)
        /\ LET r == MgrRecordAirdrop(mgr.cache, ledger, params, nextId, now,
                                     fault)
           IN  /\ ledger' = r.ledger
               /\ nextId' = IF r.ok THEN nextId + 1 ELSE nextId
               /\ mgr' = AfterCall(r.cache,
                            [op |-> "recordAirdrop",
                             address |-> params.recipientAddress,
                             value |-> r.ok, hit |-> FALSE,
                             fault |-> fault, at |-> now])
        /\ Spend(fault)
    /\ UNCHANGED <<now, ticks, holdings, nonce, h, callers>>

\* another manager on the same database (a handler invocation's) records an
\* airdrop
OtherWriter ==
    /\ \E params \in MgrParams :
        LET r == DbRecordAirdrop(ledger, params, nextId, now, FALSE)
        IN  /\ r.ok
            /\ ledger' = r.ledger
            /\ nextId' = nextId + 1
    /\ UNCHANGED <<now, ticks, faults, holdings, nonce, h, mgr, callers>>

\* time passes: a moment, or longer than the cache's TTL
Tick ==
    /\ ticks < MaxTicks
    /\ \E d \in {1, stdTTL + 1} : now' = now + d
    /\ ticks' = ticks + 1
    /\ UNCHANGED <<ledger, nextId, faults, holdings, nonce, h, mgr, callers>>

\* manager.formatAirdropStatus(runtime, address); f1 and f2 say that the
\* ledger read of hasReceivedAirdrop, of getAirdropHistory, fails.  Both
\* methods swallow the failure, so that the catch block of
\* formatAirdropStatus ('Failed to fetch airdrop status') is never entered.
MgrCallFormatAirdropStatus ==
    /\ mgr.calls < MaxCalls
    /\ \E address \in Recipients, f1 \in BOOLEAN, f2 \in BOOLEAN :
        LET r == MgrHasReceivedAirdrop(mgr.cache, ledger, address, now, f1)
            n == (IF f1 THEN 1 ELSE 0) + (IF f2 THEN 1 ELSE 0)
        IN  /\ faults + n <= MaxFaults
            /\ r.hit => ~f1
            /\ f2 => r.value /\ ~CacheHas(r.cache.history, address, now)
            /\ \E o \in FormatAirdropStatusRest(r.value, r.cache, ledger,
                                                address, now, f2) :
                   mgr' = AfterCall(o.cache,
                            [op |-> "formatAirdropStatus",
                             address |-> address, value |-> o.text,
                             hit |-> r.hit, fault |-> f1 \/ f2, at |-> now])
            /\ faults' = faults + n
    /\ UNCHANGED <<ledger, nextId, now, ticks, holdings, nonce, h, callers>>

NextMgr ==
    \/ MgrCallHasReceivedAirdrop
    \/ MgrCallRecordAirdrop
    \/ MgrCallFormatAirdropStatus
    \/ OtherWriter
    \/ Tick

SpecMgr == InitMgr /\ [][NextMgr]_vars

\* C5: a hasReceivedAirdrop(r) that comes right after a recordAirdrop for r
\* returned true on the same manager, and whose own ledger read (if any) does
\* not fail, returns true.
C5_TrueAfterSuccessfulRecord ==
    (/\ mgr.last.op = "hasReceivedAirdrop"
     /\ mgr.prev.op = "recordAirdrop"
     /\ mgr.prev.value
     /\ mgr.prev.address = mgr.last.address
     /\ ~mgr.last.fault)
        => mgr.last.value

\* C10: two hasReceivedAirdrop(r) calls, one right after the other on the
\* same manager and at the same clock reading, return the same boolean.
C10_RepeatedCheckAgrees ==
    (/\ mgr.last.op = "hasReceivedAirdrop"
     /\ mgr.prev.op = "hasReceivedAirdrop"
     /\ mgr.prev.address = mgr.last.address
     /\ mgr.prev.at = mgr.last.at)
        => mgr.last.value = mgr.prev.value

\* the first call read the ledger, the second was answered from the cache
\* with the same (by then stale) false
C10_Witness ==
    /\ mgr.last.op = "hasReceivedAirdrop"
    /\ mgr.prev.op = "hasReceivedAirdrop"
    /\ mgr.prev.address = mgr.last.address
    /\ mgr.prev.at = mgr.last.at
    /\ ~mgr.prev.hit /\ ~mgr.prev.fault
    /\ mgr.last.hit
    /\ ~mgr.last.value /\ ~mgr.prev.value
    /\ DbHasReceivedAirdrop(ledger, mgr.last.address, FALSE)

(***************************************************************************)
(* Properties of the ledger under its callers (specification SpecLedger).  *)
(***************************************************************************)
\* C11: no two rows of the ledger share (recipient_address,
\* nft_contract_address, token_id); the insert itself refuses the second one.
C11_TripleIsUnique ==
    \A x, y \in ledger :
        (/\ x.recipient_address = y.recipient_address
         /\ x.nft_contract_address = y.nft_contract_address
         /\ x.token_id = y.token_id) => x = y

\* a second insert of a stored triple, meeting no storage error, was refused
\* and the ledger holds the one row
C11_Witness ==
    \E c \in Callers :
        /\ callers[c].pc = "done"
        /\ ~callers[c].fault
        /\ ~callers[c].ret
        /\ Cardinality(RowsWith(Triple(callers[c].params))) = 1

(***************************************************************************)
(* SpecVal: the two validator functions applied to one content value.      *)
(***************************************************************************)
\* the values a field of the extracted content may have
FieldValues ==
    {JsUndefined, JsNull, Str(""), Str(R1), Str(ShortAddr), Str(NoPrefixAddr),
     Num(0), Num(5)}

\* the content values generateObject may produce
ValidatorContents ==
    {JsNull, JsUndefined} \cup {Obj(c, r) : c \in FieldValues, r \in FieldValues}

NotCalled == "<not called>"
Threw == "<TypeError>"

InitVal ==
    /\ InitCommon
    /\ \E content \in ValidatorContents :
          h = [content |-> content, accepted |-> NotCalled, reason |-> NotCalled]
    /\ mgr = NewMgr
    /\ callers = <<>>

\* isNFTTransferContent(content)
CallIsNFTTransferContent ==
    /\ h.accepted = NotCalled
    /\ h' = [h EXCEPT !.accepted =
                IF isNFTTransferContentThrows(h.content) THEN Threw
                ELSE IF isNFTTransferContent(h.content) THEN "true"
                ELSE "false"]
    /\ UNCHANGED <<ledger, nextId, now, ticks, faults, holdings, nonce, mgr,
                   callers>>

\* getTransferError(content)
CallGetTransferError ==
    /\ h.reason = NotCalled
    /\ h' = [h EXCEPT !.reason =
                IF getTransferErrorThrows(h.content) THEN Threw
                ELSE getTransferError(h.content)]
    /\ UNCHANGED <<ledger, nextId, now, ticks, faults, holdings, nonce, mgr,
                   callers>>

NextVal ==
    \/ CallIsNFTTransferContent
    \/ CallGetTransferError

SpecVal == InitVal /\ [][NextVal]_vars

\* C12: for every content value, getTransferError returns the first failing
\* reason of the checklist.
C12_FirstFailingReason ==
    h.reason # NotCalled => h.reason = FirstFailingReason(h.content)

\* C13: isNFTTransferContent returns true exactly for a content whose two
\* addresses are well-formed strings, and false for every other content.
C13_AcceptsExactlyWellFormed ==
    h.accepted # NotCalled
        => h.accepted = IF /\ h.content.t = "object"
                           /\ WellFormed(h.content.nftContractAddress)
                           /\ WellFormed(h.content.recipient)
                        THEN "true" ELSE "false"

(***************************************************************************)
(* Further properties of the handler (specification Spec).                 *)
(***************************************************************************)
\* C19: whatever the extracted content and whatever fails in the store or
\* the chain client, a finished invocation has returned a boolean, and one
\* that returned false has reported an error through the callback.
C19_NoFaultEscapes ==
    \A i \in Inv :
        h[i].pc = "done"
            => /\ h[i].ret \in {"true", "false"}
               /\ h[i].ret = "false" => h[i].cb.error # NoError

\* the messages of the exceptions the chain client raises
ChainErrors == {"network error", "transaction reverted"}

\* invocation i met an exception in tokenOfOwnerByIndex, or in transferCall
\* or account.execute
SelectionThrew(i) ==
    h[i].pc = "done" /\ h[i].selectCalls = 1 /\ h[i].executeCalls = 0

SubmissionThrew(i) == h[i].executeThrew

\* C20: an invocation that met an exception in selection or submission has
\* returned false and reported 'Error transferring NFT: <message>' with
\* content.error the message; it has written no record; and no invocation
\* calls account.execute more than once.
C20_ChainExceptionCaught ==
    \A i \in Inv :
        /\ h[i].executeCalls <= 1
        /\ (SelectionThrew(i) \/ SubmissionThrew(i))
              => /\ h[i].pc = "done"
                 /\ h[i].ret = "false"
                 /\ \E m \in ChainErrors :
                       /\ h[i].cb.text = [t |-> "Error transferring NFT: ",
                                          message |-> m]
                       /\ h[i].cb.error = m
                 /\ h[i].tx = ""
                 /\ h[i].recordRet = "none"

\* a submission failed on the network and was reported; the token is still
\* the account's and the ledger has no record
C20_Witness ==
    \E i \in Inv :
        /\ SubmissionThrew(i)
        /\ h[i].cb.error = "network error"
        /\ h[i].ret = "false"
        /\ Holds(holdings[h[i].content.nftContractAddress.s], h[i].nftId)
        /\ ledger = {}

(***************************************************************************)
(* SpecDb: the methods of NFTAirdropDatabase called one after the other    *)
(* on one database; callers holds the number of calls and the last call.   *)
(***************************************************************************)
InitDb ==
    /\ InitCommon
    /\ h = <<>>
    /\ mgr = NewMgr
    /\ callers = [calls |-> 0, last |-> NoCall]

\* db.recordAirdrop(params)
DbCallRecordAirdrop ==
    /\ callers.calls < MaxDbCalls
    /\ \E params \in LedgerParams, fault \in BOOLEAN, d \in {0, 1} :
        /\ MayFail(fault)
        /\ d = 1 => ~fault /\ ledger # {}
        /\ now' = now + d
        /\ LET r == DbRecordAirdrop(ledger, params, nextId, now', fault)
           IN  /\ ledger' = r.ledger
               /\ nextId' = IF r.ok THEN nextId + 1 ELSE nextId
               /\ callers' = [calls |-> callers.calls + 1,
                              last |-> [op |-> "recordAirdrop",
                                        params |-> params, ret |-> r.ok,
                                        fault |-> fault, before |-> ledger,
                                        id |-> nextId]]
        /\ Spend(fault)
    /\ UNCHANGED <<ticks, holdings, nonce, h, mgr>>

\* db.hasReceivedAirdrop(recipientAddress)
DbCallHasReceivedAirdrop ==
    /\ callers.calls < MaxDbCalls
    /\ \E address \in Recipients, fault \in BOOLEAN :
        /\ MayFail(fault)
        /\ callers' = [calls |-> callers.calls + 1,
                       last |-> [op |-> "hasReceivedAirdrop",
                                 address |-> address,
                                 ret |-> DbHasReceivedAirdrop(ledger, address,
                                                              fault),
                                 fault |-> fault]]
        /\ Spend(fault)
    /\ UNCHANGED <<ledger, nextId, now, ticks, holdings, nonce, h, mgr>>

(***************************************************************************)
(* The queries of NFTAirdropDatabase in SpecDb.                            *)
(***************************************************************************)
\* the filters given to getAirdropHistory ("" and 0: not given)
HistoryFilters ==
    [roomId : {"", "room1"}, agentId : {"", "agent1", "agent2"},
     recipientAddress : {"", R1}, limit : {0, 1, 2}]

\* db.getAirdropHistory(params)
DbCallGetAirdropHistory ==
    /\ callers.calls < MaxDbCalls
    /\ \E params \in HistoryFilters, fault \in BOOLEAN :
        /\ MayFail(fault)
        /\ \E history \in DbGetAirdropHistory(ledger, params, fault) :
              callers' = [calls |-> callers.calls + 1,
                          last |-> [op |-> "getAirdropHistory",
                                    params |-> params, ret |-> history,
                                    fault |-> fault]]
        /\ Spend(fault)
    /\ UNCHANGED <<ledger, nextId, now, ticks, holdings, nonce, h, mgr>>

\* the filters given to getAirdropStats ("" and 0: not given)
StatsFilters ==
    [roomId : {"", "room1"}, agentId : {"", "agent1", "agent2"},
     startTime : {0, 1}, endTime : {0, 1}]

\* db.getAirdropStats(params)
DbCallGetAirdropStats ==
    /\ callers.calls < MaxDbCalls
    /\ \E params \in StatsFilters, fault \in BOOLEAN :
        /\ MayFail(fault)
        /\ callers' = [calls |-> callers.calls + 1,
                       last |-> [op |-> "getAirdropStats", params |-> params,
                                 ret |-> DbGetAirdropStats(ledger, params,
                                                           fault),
                                 fault |-> fault]]
        /\ Spend(fault)
    /\ UNCHANGED <<ledger, nextId, now, ticks, holdings, nonce, h, mgr>>

NextDb ==
    \/ DbCallRecordAirdrop
    \/ DbCallHasReceivedAirdrop
    \/ DbCallGetAirdropHistory
    \/ DbCallGetAirdropStats

SpecDb == InitDb /\ [][NextDb]_vars

\* C15: hasReceivedAirdrop(recipient) returns a boolean: false when the query
\* fails, and otherwise true exactly when a row with that recipient exists.
C15_HasReceivedNeverThrows ==
    callers.last.op = "hasReceivedAirdrop"
        => /\ callers.last.ret \in BOOLEAN
           /\ callers.last.fault => callers.last.ret = FALSE
           /\ ~callers.last.fault
                 => (callers.last.ret <=> RecordsOf(callers.last.address) # {})

\* the query failed for a recipient with a row, and the answer was false
C15_Witness ==
    /\ callers.last.op = "hasReceivedAirdrop"
    /\ callers.last.fault
    /\ RecordsOf(callers.last.address) # {}
    /\ callers.last.ret = FALSE

\* C16: recordAirdrop returns a boolean: true only when it inserted a new
\* row, carrying its parameters; false when the triple is already stored or
\* the statement fails, and then the rows are what they were.
C16_RecordNeverThrows ==
    callers.last.op = "recordAirdrop"
        => LET c == callers.last
               stored == \E x \in c.before :
                            <<x.recipient_address, x.nft_contract_address,
                              x.token_id>> = Triple(c.params)
           IN  /\ c.ret \in BOOLEAN
               /\ (c.fault \/ stored) => ~c.ret
               /\ ~c.ret => ledger = c.before
               /\ c.ret => /\ c.before \subseteq ledger
                           /\ Cardinality(ledger \ c.before) = 1
                           /\ \A x \in ledger \ c.before :
                                 /\ x.id = c.id
                                 /\ <<x.recipient_address,
                                      x.nft_contract_address, x.token_id>>
                                        = Triple(c.params)
                                 /\ x.room_id = c.params.roomId
                                 /\ x.agent_id = c.params.agentId

\* a second record of a stored triple, with another hash, met no storage
\* error and was refused: the first record is still the one stored
C16_Witness ==
    /\ callers.last.op = "recordAirdrop"
    /\ ~callers.last.fault
    /\ ~callers.last.ret
    /\ ledger = callers.last.before
    /\ \E x \in ledger :
          /\ <<x.recipient_address, x.nft_contract_address, x.token_id>>
                = Triple(callers.last.params)
          /\ x.transaction_hash # callers.last.params.transactionHash

(***************************************************************************)
(* Properties of formatAirdropStatus (specification SpecMgr).              *)
(***************************************************************************)
\* C17: formatAirdropStatus returns the 'has already received an NFT'
\* message for a served recipient, the 'has not received an NFT airdrop yet'
\* message for a never-served one, and 'Failed to fetch airdrop status' when
\* something failed inside.
C17_StatusMessageByCase ==
    mgr.last.op = "formatAirdropStatus"
        => LET served == RecordsOf(mgr.last.address) # {}
           IN  /\ mgr.last.fault
                     => mgr.last.value.t = "Failed to fetch airdrop status"
               /\ (~mgr.last.fault /\ served)
                     => mgr.last.value.t \in AlreadyReceivedTexts
               /\ (~mgr.last.fault /\ ~served)
                     => mgr.last.value.t = "has not received an NFT airdrop yet"

\* the rows of recipient r with the greatest airdrop_timestamp
MostRecent(r) ==
    {x \in RecordsOf(r) :
        \A y \in RecordsOf(r) : y.airdrop_timestamp <= x.airdrop_timestamp}

\* C18: for a recipient with a row, the text of formatAirdropStatus shows the
\* token id, the timestamp and the transaction hash of the recipient's most
\* recent row, the hash part being there only when the row stores a hash.
C18_StatusShowsLatestRecord ==
    (mgr.last.op = "formatAirdropStatus" /\ RecordsOf(mgr.last.address) # {})
        => \E x \in MostRecent(mgr.last.address) :
              /\ mgr.last.value.t = "has already received an NFT (tokenId) on date"
              /\ mgr.last.value.tokenId = x.token_id
              /\ mgr.last.value.date = ToLocaleString(x.airdrop_timestamp)
              /\ IF x.transaction_hash = SqlNull
                 THEN "transactionHash" \notin DOMAIN mgr.last.value
                 ELSE mgr.last.value.transactionHash = x.transaction_hash

\* row x was written by an invocation for its recipient and token whose
\* account.execute had returned the hash the row carries
WrittenAfterSubmission(x) ==
    \E i \in Inv :
        /\ h[i].tx # ""
        /\ h[i].executeCalls = 1 /\ ~h[i].executeThrew
        /\ h[i].recordRet = "true"
        /\ x.recipient_address = h[i].content.recipient.s
        /\ x.nft_contract_address = h[i].content.nftContractAddress.s
        /\ x.token_id = BigIntToString(h[i].nftId)
        /\ x.transaction_hash = h[i].tx

\* C21: every row of the ledger was written after a successful submission
\* for its recipient and token; no step modifies or removes a row; and a
\* ledger-level hasReceivedAirdrop(r) whose read succeeds, once true, stays
\* true.
C21_RecordsOnlyGrow ==
    /\ [](\A x \in ledger : WrittenAfterSubmission(x))
    /\ [][/\ ledger \subseteq ledger'
          /\ \A r \in Recipients :
                DbHasReceivedAirdrop(ledger, r, FALSE)
                    => DbHasReceivedAirdrop(ledger', r, FALSE)]_vars

\* two rows in the ledger, each written by an invocation that had submitted
C21_Witness ==
    /\ Cardinality(ledger) = 2
    /\ \A x \in ledger : WrittenAfterSubmission(x)
    /\ \E r \in Recipients : DbHasReceivedAirdrop(ledger, r, FALSE)

\* C22: an invocation whose selection returned the zero identifier does not
\* call account.execute, writes no record and does not report success.
C22_NoAssetAborts ==
    \A i \in Inv :
        (h[i].selectCalls = 1 /\ h[i].pc # "checked" /\ h[i].nftId = 0)
            => /\ h[i].executeCalls = 0
               /\ h[i].recordRet = "none"
               /\ h[i].ret # "true"

\* the rows that match every filter given
Matching(params) ==
    {x \in ledger :
        /\ params.roomId # "" => x.room_id = params.roomId
        /\ params.agentId # "" => x.agent_id = params.agentId
        /\ "recipientAddress" \in DOMAIN params =>
              (params.recipientAddress # ""
                  => x.recipient_address = params.recipientAddress)}

\* C23: getAirdropHistory returns the empty list when the query fails, and
\* otherwise the rows matching every filter given, each once, newest first,
\* cut to the newest limit of them when a limit is given.
C23_HistoryNewestFirst ==
    callers.last.op = "getAirdropHistory"
        => LET c == callers.last
               M == Matching(c.params)
               n == Len(c.ret)
           IN  IF c.fault THEN c.ret = <<>>
               ELSE /\ \A k \in 1..n : \E x \in M : c.ret[k] = RowToAirdrop(x)
                    /\ \A j, k \in 1..n : j # k => c.ret[j].id # c.ret[k].id
                    /\ \A j, k \in 1..n :
                          j < k => c.ret[j].airdropTimestamp
                                      >= c.ret[k].airdropTimestamp
                    /\ n = IF c.params.limit > 0
                           THEN Min(c.params.limit, Cardinality(M))
                           ELSE Cardinality(M)
                    /\ \A x \in M :
                          (\A k \in 1..n : c.ret[k].id # x.id)
                             => \A k \in 1..n :
                                   x.airdrop_timestamp
                                      <= c.ret[k].airdropTimestamp

\* of two matching rows of different ages a limit of one kept the newer,
\* a third row being filtered out
C23_Witness ==
    /\ callers.last.op = "getAirdropHistory"
    /\ ~callers.last.fault
    /\ callers.last.params.limit = 1
    /\ callers.last.params.recipientAddress = R1
    /\ Cardinality(Matching(callers.last.params)) = 2
    /\ Cardinality(ledger) = 3
    /\ Len(callers.last.ret) = 1
    /\ \E x \in Matching(callers.last.params) :
          x.airdrop_timestamp < callers.last.ret[1].airdropTimestamp

\* the rows that match every filter given to getAirdropStats
StatsMatching(params) ==
    {x \in ledger :
        /\ params.roomId # "" => x.room_id = params.roomId
        /\ params.agentId # "" => x.agent_id = params.agentId
        /\ params.startTime > 0 => x.airdrop_timestamp >= params.startTime
        /\ params.endTime > 0 => x.airdrop_timestamp <= params.endTime}

\* C24: getAirdropStats returns zeros when the query fails, and otherwise
\* the number of matching rows and the number of distinct recipients among
\* them; uniqueRecipients never exceeds totalAirdrops.
C24_StatsCountRows ==
    callers.last.op = "getAirdropStats"
        => LET c == callers.last
               M == StatsMatching(c.params)
           IN  /\ c.ret.uniqueRecipients <= c.ret.totalAirdrops
               /\ IF c.fault
                  THEN c.ret = [totalAirdrops |-> 0, uniqueRecipients |-> 0]
                  ELSE /\ c.ret.totalAirdrops = Cardinality(M)
                       /\ c.ret.uniqueRecipients =
                             Cardinality({x.recipient_address : x \in M})

\* a filter that leaves out a row, two rows of one recipient counted
C24_Witness ==
    /\ callers.last.op = "getAirdropStats"
    /\ ~callers.last.fault
    /\ callers.last.params.roomId = "room1"
    /\ Cardinality(ledger) = 3
    /\ callers.last.ret = [totalAirdrops |-> 2, uniqueRecipients |-> 1]

(***************************************************************************)
(* SpecFetch: one call of fetchWithRetry(url, options, config).  Times are *)
(* in units of 1000 ms.                                                    *)
(***************************************************************************)
RECURSIVE Pow2(_)
\* Math.pow(2, n)
Pow2(n) == IF n = 0 THEN 1 ELSE 2 * Pow2(n - 1)

\* a backoff that doubles without the cap
UncappedBackoff(retryCount, baseDelay, maxDelay) == baseDelay * Pow2(retryCount)

\* the default backoff:
\* Math.min(baseDelay * Math.pow(2, retryCount), maxDelay)
DefaultBackoff(retryCount, baseDelay, maxDelay) ==
    Min(baseDelay * Pow2(retryCount), maxDelay)

\* the configurations given: maxRetries (3 when not given), delay (1), and
\* maxDelay (10), with the default backoff
RetryConfigs ==
    [maxRetries : -1..MaxMaxRetries, delay : {1, 3}, maxDelay : {5, 10}]

\* what an attempt may come to: an ok response whose body parses, an ok
\* response whose body does not, a response that is not ok, fetch throwing
AttemptOutcomes == {"ok", "json throws", "status not ok", "fetch throws"}

NullError == [kind |-> "null", attempt |-> 0]

\* a test that leaves the loop one attempt early
LastRetryOffByOne(retryCount, maxRetries) == retryCount + 1 = maxRetries

\* if (retryCount === maxRetries) break;
LastRetry(retryCount, maxRetries) == retryCount = maxRetries

InitFetch ==
    /\ InitCommon
    /\ \E config \in RetryConfigs :
          h = [pc |-> "loop", config |-> config, retryCount |-> 0,
               attempts |-> <<>>, waits |-> <<>>, lastError |-> NullError,
               returned |-> "", thrown |-> NullError]
    /\ mgr = NewMgr
    /\ callers = <<>>

\* the loop test retryCount <= maxRetries; after the loop, throw lastError
FetchLoopTest ==
    /\ h.pc = "loop"
    /\ h' = IF h.retryCount <= h.config.maxRetries
            THEN [h EXCEPT !.pc = "try"]
            ELSE [h EXCEPT !.pc = "threw", !.thrown = h.lastError]
    /\ UNCHANGED <<ledger, nextId, now, ticks, faults, holdings, nonce, mgr,
                   callers>>

\* the try block and its catch: fetch, the test of response.ok, and
\* response.json(); on an error, break at the last retry, else start waiting
FetchAttempt ==
    /\ h.pc = "try"
    /\ \E outcome \in AttemptOutcomes :
        LET n == Len(h.attempts) + 1
            tried == [h EXCEPT !.attempts = Append(@, outcome)]
        IN  h' = IF outcome = "ok"
                 THEN [tried EXCEPT !.pc = "returned",
                                    !.returned = "body"]
                 ELSE IF LastRetry(h.retryCount, h.config.maxRetries)
                 THEN [tried EXCEPT
                         !.pc = "threw",
                         !.lastError = [kind |-> outcome, attempt |-> n],
                         !.thrown = [kind |-> outcome, attempt |-> n]]
                 ELSE [tried EXCEPT
                         !.pc = "waiting",
                         !.lastError = [kind |-> outcome, attempt |-> n],
                         !.waits = Append(@,
                             DefaultBackoff(h.retryCount, h.config.delay,
                                            h.config.maxDelay))]
    /\ UNCHANGED <<ledger, nextId, now, ticks, faults, holdings, nonce, mgr,
                   callers>>

\* the timer fires: retryCount++
FetchBackoffDone ==
    /\ h.pc = "waiting"
    /\ h' = [h EXCEPT !.pc = "loop", !.retryCount = @ + 1]
    /\ UNCHANGED <<ledger, nextId, now, ticks, faults, holdings, nonce, mgr,
                   callers>>

NextFetch ==
    \/ FetchLoopTest
    \/ FetchAttempt
    \/ FetchBackoffDone

SpecFetch == InitFetch /\ [][NextFetch]_vars

FetchFailed(n) == h.attempts[n] # "ok"

(* C25: fetchWithRetry makes at most maxRetries + 1 attempts; when it      *)
(* returns, the attempt it returns the body of is the last one made and    *)
(* the first that succeeded; when it throws, every one of exactly          *)
(* maxRetries + 1 attempts failed, the error thrown is that of the last    *)
(* attempt, and there is one wait fewer than attempts (none after the      *)
(* final failure).                                                         *)
C25_AtMostMaxRetriesPlusOne ==
    LET n == Len(h.attempts)
    IN  /\ n <= h.config.maxRetries + 1
        /\ h.pc = "returned" =>
              /\ n >= 1
              /\ h.attempts[n] = "ok"
              /\ h.returned = "body"
              /\ \A k \in 1..(n - 1) : FetchFailed(k)
              /\ Len(h.waits) = n - 1
        /\ h.pc = "threw" =>
              /\ n = h.config.maxRetries + 1
              /\ \A k \in 1..n : FetchFailed(k)
              /\ n >= 1 => /\ h.thrown = [kind |-> h.attempts[n],
                                          attempt |-> n]
                           /\ Len(h.waits) = n - 1

C25_Witness ==
    /\ h.pc = "threw"
    /\ h.config.maxRetries = 2
    /\ h.attempts = <<"fetch throws", "json throws", "status not ok">>
    /\ h.thrown = [kind |-> "status not ok", attempt |-> 3]
    /\ Len(h.waits) = 2

C25_WitnessReturned ==
    /\ h.pc = "returned"
    /\ h.attempts = <<"status not ok", "ok">>
    /\ h.config.maxRetries = 2

(* C26: with the default backoff the wait after the k-th failed attempt,   *)
(* k from 0, is delay * 2^k where that is below maxDelay and maxDelay      *)
(* otherwise; the waits never decrease and never exceed maxDelay.          *)
C26_WaitsDoubleUpToCap ==
    \A j \in 1..Len(h.waits) :
        LET k == j - 1
            doubled == h.config.delay * Pow2(k)
        IN  /\ h.waits[j] = IF doubled < h.config.maxDelay
                            THEN doubled ELSE h.config.maxDelay
            /\ h.waits[j] <= h.config.maxDelay
            /\ j > 1 => h.waits[j - 1] <= h.waits[j]

C26_Witness ==
    /\ h.config.delay = 3
    /\ h.config.maxDelay = 5
    /\ h.waits = <<3, 5>>
    /\ h.pc = "threw"

\* the step is a call of manager.hasReceivedAirdrop
IsHasReceivedAirdropCall ==
    /\ mgr'.calls = mgr.calls + 1
    /\ mgr'.last.op = "hasReceivedAirdrop"

(* C27: a hasReceivedAirdrop(a) that finds an unexpired entry for a        *)
(* returns the entry's value and makes no ledger read; one that finds none *)
(* reads the ledger, returns what the read gave, true or false, and leaves *)
(* that value in the cache under a.                                        *)
C27_CacheAsideRead ==
    [][IsHasReceivedAirdropCall =>
         LET a == mgr'.last.address
         IN  IF CacheHas(mgr.cache.status, a, now)
             THEN /\ mgr'.last.hit
                  /\ mgr'.last.value = CacheValue(mgr.cache.status, a, now)
                  /\ ~mgr'.last.fault
                  /\ Live(mgr'.cache.status, now) =
                        Live(mgr.cache.status, now)
                  /\ ledger' = ledger
             ELSE /\ ~mgr'.last.hit
                  /\ mgr'.last.value =
                        DbHasReceivedAirdrop(ledger, a, mgr'.last.fault)
                  /\ CacheHas(mgr'.cache.status, a, now)
                  /\ CacheValue(mgr'.cache.status, a, now) = mgr'.last.value
                  /\ ledger' = ledger]_vars

\* a miss that stored true, then, a moment later, a hit that returned it
C27_Witness ==
    /\ mgr.last.op = "hasReceivedAirdrop"
    /\ mgr.prev.op = "hasReceivedAirdrop"
    /\ mgr.prev.address = mgr.last.address
    /\ ~mgr.prev.hit /\ mgr.prev.value
    /\ mgr.last.hit /\ mgr.last.value
    /\ mgr.prev.at < mgr.last.at
    /\ CacheHas(mgr.cache.status, mgr.last.address, now)

\* the step is a call of manager.recordAirdrop
IsRecordAirdropCall ==
    /\ mgr'.calls = mgr.calls + 1
    /\ mgr'.last.op = "recordAirdrop"

CacheKeys(entries) == {e.k : e \in entries}

(* C28: a manager.recordAirdrop adds no key to the status cache or to the  *)
(* history cache, and one that returns false leaves both caches exactly as *)
(* they were.                                                              *)
C28_RecordLeavesCacheAlone ==
    [][IsRecordAirdropCall =>
         /\ CacheKeys(mgr'.cache.status) \subseteq CacheKeys(mgr.cache.status)
         /\ CacheKeys(mgr'.cache.history) \subseteq
                CacheKeys(mgr.cache.history)
         /\ ~mgr'.last.value => mgr'.cache = mgr.cache]_vars

\* a recordAirdrop returned false on a manager whose caches hold a status
\* entry and a history entry for the recipient
C28_Witness ==
    /\ mgr.last.op = "recordAirdrop"
    /\ ~mgr.last.value
    /\ CacheHas(mgr.cache.status, mgr.last.address, now)
    /\ CacheHas(mgr.cache.history, mgr.last.address, now)

\* a recordAirdrop returned true on a manager with no entry for the
\* recipient, and there is none afterwards
C28_WitnessStored ==
    /\ mgr.last.op = "recordAirdrop"
    /\ mgr.last.value
    /\ mgr.cache = EmptyCache

\* C29 with, or without, the exception for a ledger read that fails
StalenessBounded(exceptFailedRead) ==
    /\ IsHasReceivedAirdropCall =>
         LET a == mgr'.last.address
         IN  /\ mgr'.last.hit =>
                   \E e \in mgr.cache.status :
                       /\ e.k = a
                       /\ e.v = mgr'.last.value
                       /\ now <= e.t
             /\ ~CacheHas(mgr.cache.status, a, now) =>
                   /\ ~mgr'.last.hit
                   /\ \A e \in mgr'.cache.status :
                         e.k = a => e.t = now + stdTTL
                   /\ (/\ \E e \in mgr.cache.status : e.k = a /\ e.t < now
                       /\ DbHasReceivedAirdrop(ledger, a, FALSE)
                       /\ exceptFailedRead => ~mgr'.last.fault)
                         => mgr'.last.value
    /\ \A e \in mgr.cache.status : e \notin mgr'.cache.status => e.t < now

(* C29: a hasReceivedAirdrop(r) is answered from the cache only while no   *)
(* more than 300 seconds have passed since the entry was stored; a call    *)
(* that finds no unexpired entry reads the ledger and, the read            *)
(* succeeding, returns true when a record for r exists; only an expired    *)
(* entry ever leaves the cache.                                            *)
C29_StalenessBoundedByTTL == [][StalenessBounded(TRUE)]_vars

\* C29 as stated: the first call after expiry returns true whenever a record
\* for r exists
C29_FirstReadAfterExpiryTrue == [][StalenessBounded(FALSE)]_vars

\* false was cached for r, another manager recorded an airdrop for r, the
\* TTL passed, and the next call read the ledger and returned true
C29_Witness ==
    /\ mgr.last.op = "hasReceivedAirdrop"
    /\ mgr.prev.op = "hasReceivedAirdrop"
    /\ mgr.prev.address = mgr.last.address
    /\ ~mgr.prev.value
    /\ mgr.last.at > mgr.prev.at + stdTTL
    /\ ~mgr.last.hit
    /\ mgr.last.value

\* the invocation was turned away as already served
RejectedAsServed(i) ==
    /\ h[i].hasReceived
    /\ h[i].selectCalls = 0
    /\ h[i].executeCalls = 0
    /\ h[i].recordRet = "none"
    /\ h[i].pc = "done" =>
          /\ h[i].ret = "false"
          /\ h[i].cb.error = "Recipient already received NFT"

\* the ledger holds a record for the invocation's recipient, and none of
\* them is for the contract the invocation names
ServedFromOtherContractOnly(i) ==
    /\ RecordsOf(h[i].content.recipient.s) # {}
    /\ \A x \in RecordsOf(h[i].content.recipient.s) :
          x.nft_contract_address # h[i].content.nftContractAddress.s

(* C30: an invocation for recipient r whose eligibility check ran when the *)
(* ledger held a record for r, and whose ledger read succeeded, is         *)
(* rejected as already served, whatever contract it names.                 *)
C30_EligibilityByRecipientAlone ==
    \A i \in Inv :
        (h[i].servedAtCheck /\ ~h[i].readFault) => RejectedAsServed(i)

\* C30 as stated: it is rejected once any record exists for r
C30_RejectedOnceAnyRecord ==
    \A i \in Inv : h[i].servedAtCheck => RejectedAsServed(i)

\* a request naming a contract from which the recipient received nothing
\* was rejected because of a record from another contract
C30_Witness ==
    \E i \in Inv :
        /\ h[i].servedAtCheck /\ ~h[i].readFault
        /\ h[i].pc = "done" /\ h[i].ret = "false"
        /\ h[i].cb.error = "Recipient already received NFT"
        /\ h[i].content.nftContractAddress = Str(C2)
        /\ ServedFromOtherContractOnly(i)

\* the first token of the enumeration of the account's holdings in contract
\* c, the zero identifier when there is none
FirstAvailable(c) == IF holdings[c] = <<>> THEN 0 ELSE Head(holdings[c])

\* C31, the record being required whenever the submission succeeded
\* (always) or only when the insert met no storage error
FirstAvailablePick(always) ==
    \A i \in Inv :
        /\ (h[i].pc = "checked" /\ h'[i].pc = "selected") =>
              h'[i].nftId = FirstAvailable(h[i].content.nftContractAddress.s)
        /\ (h[i].pc = "selected" /\ h[i].nftId = 0 /\ h'[i] # h[i]) =>
              h'[i].executeCalls = h[i].executeCalls + 1
        /\ (h[i].pc = "executed" /\ h[i].nftId = 0 /\ h'[i] # h[i]) =>
              /\ h'[i].recordParams.tokenId = "0"
              /\ h'[i].recordParams.transactionHash = h[i].tx
              /\ (always \/ ~h'[i].recordFault) =>
                    \E x \in ledger' \ ledger :
                        /\ x.token_id = "0"
                        /\ x.recipient_address = h[i].content.recipient.s
                        /\ x.transaction_hash = h[i].tx

C32_ValidatorsAgree ==
    (h.accepted # NotCalled /\ h.reason # NotCalled) =>
        /\ h.accepted = "false" => h.reason \notin {Threw, ""}
        /\ h.accepted = "true" => h.reason = ""

(* C33: a finished invocation has invoked its callback, has returned true  *)
(* or false, and has returned true exactly when its account.execute        *)
(* succeeded; it has returned false when the request was invalid, when the *)
(* recipient was found served, and when an exception was met.              *)
C33_OneCallbackOneOutcome ==
    \A i \in Inv :
        h[i].pc = "done" =>
            /\ h[i].cb # NoCallback
            /\ h[i].ret \in {"true", "false"}
            /\ h[i].ret = "true" <=> h[i].tx # ""
            /\ (\/ h[i].content.t # "object"
                \/ ~WellFormed(h[i].content.nftContractAddress)
                \/ ~WellFormed(h[i].content.recipient)) => h[i].ret = "false"
            /\ h[i].hasReceived => h[i].ret = "false"
            /\ (SelectionThrew(i) \/ SubmissionThrew(i)) => h[i].ret = "false"

\* C34, the decision being the ledger's content whatever happens (always)
\* or when the ledger read succeeds
OwnManagerDecides(always) ==
    \A i \in Inv :
        (h[i].pc = "idle" /\ h'[i].pc = "checked") =>
            LET r == h'[i].content.recipient.s
            IN  /\ (always \/ ~h'[i].readFault) =>
                      h'[i].hasReceived = DbHasReceivedAirdrop(ledger, r, FALSE)
                /\ h'[i].hasReceived =
                      DbHasReceivedAirdrop(ledger, r, h'[i].readFault)
                /\ h'[i].cache.status =
                      {[k |-> r, v |-> h'[i].hasReceived, t |-> now + stdTTL]}

C35_CachedTrueHasRecord ==
    \A e \in mgr.cache.status : e.v => RecordsOf(e.k) # {}

\* the cache holds a true that is backed by a record, and a false for a
\* recipient that has been recorded since (stale in the negative direction)
C35_Witness ==
    /\ \E e \in mgr.cache.status : e.v /\ RecordsOf(e.k) # {}
    /\ \E e \in mgr.cache.status : ~e.v /\ RecordsOf(e.k) # {}

(* C36: a hasReceivedAirdrop(r) that comes right after a                   *)
(* hasReceivedAirdrop(r) whose ledger read failed, on the same manager,    *)
(* reads the ledger again: it is not answered from the cache.              *)
C36_FailedReadNotCached ==
    (/\ mgr.last.op = "hasReceivedAirdrop"
     /\ mgr.prev.op = "hasReceivedAirdrop"
     /\ mgr.prev.address = mgr.last.address
     /\ mgr.prev.fault)
        => ~mgr.last.hit

(***************************************************************************)
(* SpecHist: one NFTAirdropManager asked for histories with several        *)
(* limits, while airdrops are recorded in the database.                    *)
(***************************************************************************)
\* the limits the calls give
HistoryLimits == {1, 2}

\* the filters manager.getAirdropHistory hands to the database
HistoryParams(recipientAddress, limit) ==
    [roomId |-> "", agentId |-> "", recipientAddress |-> recipientAddress,
     limit |-> limit]

\* manager.getAirdropHistory({recipientAddress, limit})
MgrCallGetAirdropHistory ==
    /\ mgr.calls < MaxCalls
    /\ \E address \in Recipients, limit \in HistoryLimits, fault \in BOOLEAN :
        /\ MayFail(fault)
        /\ CacheHas(mgr.cache.history, address, now) => ~fault
        /\ \E o \in MgrGetAirdropHistory(mgr.cache, ledger, address, limit,
                                          now, fault) :
               mgr' = AfterCall(o.cache,
                        [op |-> "getAirdropHistory", address |-> address,
                         limit |-> limit, value |-> o.value, hit |-> o.hit,
                         fault |-> fault, at |-> now])
        /\ Spend(fault)
    /\ UNCHANGED <<ledger, nextId, now, ticks, holdings, nonce, h, callers>>

\* a handler invocation's manager records an airdrop in the same database, a
\* moment after the last one
HistWriter ==
    /\ \E params \in LedgerParams :
        LET r == DbRecordAirdrop(ledger, params, nextId, now + 1, FALSE)
        IN  /\ r.ok
            /\ ledger' = r.ledger
            /\ nextId' = nextId + 1
            /\ now' = now + 1
    /\ UNCHANGED <<ticks, faults, holdings, nonce, h, mgr, callers>>

NextHist ==
    \/ MgrCallGetAirdropHistory
    \/ HistWriter

SpecHist == InitMgr /\ [][NextHist]_vars

\* the step is a call of manager.getAirdropHistory
IsGetAirdropHistoryCall ==
    /\ mgr'.calls = mgr.calls + 1
    /\ mgr'.last.op = "getAirdropHistory"

\* the page the cache holds for the recipient is a page of the ledger as it
\* is now, for one of the limits
CachedPageCurrent(a) ==
    \E l \in HistoryLimits :
        CacheValue(mgr.cache.history, a, now) \in
            DbGetAirdropHistory(ledger, HistoryParams(a, l), FALSE)

(* C37: a getAirdropHistory({recipientAddress, limit}) returns the         *)
(* ledger's newest-first history of the recipient cut to its own limit,    *)
(* also when the manager has cached a page for the recipient that an       *)
(* earlier call with another limit fetched (no read failing and the cached *)
(* page being up to date with the ledger).                                 *)
C37_HistoryCutToOwnLimit ==
    [][(/\ IsGetAirdropHistoryCall
        /\ ~mgr'.last.fault
        /\ mgr'.last.hit => CachedPageCurrent(mgr'.last.address))
          => mgr'.last.value \in
                DbGetAirdropHistory(ledger,
                    HistoryParams(mgr'.last.address, mgr'.last.limit),
                    FALSE)]_vars

(* C38: whatever the configuration, a fetchWithRetry call that has ended   *)
(* has made at least one attempt, and when it threw, what it threw is the  *)
(* error of one of its attempts, not null.                                 *)
C38_AtLeastOneAttempt ==
    h.pc \in {"returned", "threw"} =>
        /\ Len(h.attempts) >= 1
        /\ h.pc = "threw" =>
              /\ h.thrown # NullError
              /\ h.thrown.attempt \in 1..Len(h.attempts)

=============================================================================
